---- MODULE Spec2Model ----
(***************************************************************************)
(* A model of the pvsim photovoltaic forecast pipeline:                    *)
(*   mg_pv_core.py           horizon profile, snow loss, loss stack,       *)
(*                           energy integration, irradiance adjustment,    *)
(*                           generator configuration                       *)
(*   mg_weather_openmeteo.py archive / forecast stitching                  *)
(*   streamlit_app.py        per-generator aggregation of the results,     *)
(*                           the Execute handler and its session state     *)
(*                                                                         *)
(* Each component has its own variables and its own specification          *)
(* (SpecHorizon, SpecSnow, ...).  In a component's specification the       *)
(* variables of the other components stay at their idle values.            *)
(*                                                                         *)
(* Units.  Angles are fixed-point milli-degrees (1 degree = 1000).         *)
(***************************************************************************)
EXTENDS Integers, Sequences, FiniteSets, TLC

VARIABLES
    \* ---- horizon (mg_pv_core.buildhorizonprofile) ----
    hbase,          \* the sparse base curve returned by loadhorizonbase
    genobstacles,   \* gen.obstacles: the generator's configured obstacle list
    baseelev,       \* the interpolated 360-value base curve
    full,           \* the profile being raised, one value per integer degree
    hk,             \* number of enabled obstacles applied so far
    hpc,            \* "loop" while applying, "done" once returned
    \* ---- snow loss (mg_pv_core.buildsnowlossfactor) ----
    hassnowfall,    \* FALSE when weatherhourly has no snowfall column (None)
    st,             \* number of timesteps of the index scanned so far
    currentfactor,  \* the scan's state, a binary64 value
    factort,        \* factor[t] written for the latest timestep
    prevfactor,     \* currentfactor before the latest timestep
    lastsnow,       \* the snowfall cell of the latest timestep
    lastevent,      \* the step number of the latest snow event, 0 if none
    spc,            \* "loop" while scanning, "done" once returned
    \* ---- weather stitching (mg_weather_openmeteo.getweatherdatamixed) ----
    startdate,      \* the startdate argument, a "%Y-%m-%d" string
    enddate,        \* the enddate argument
    todaylocal,     \* pd.Timestamp.now(tz).date()
    archivecall,    \* <<start, end>> passed to getweatherdataarchive, << >> if not called
    forecastcall,   \* <<start, end>> passed to getweatherdataforecast, << >> if not called
    hourlyparts,    \* the list of non-empty hourly frames
    hourly,         \* the returned hourly frame, a sequence of rows
    wpc,            \* "start", "archive", "forecast", "merge", "done", "error"
    \* ---- loss stack (lossparamsforgenerator, computepvforgenerator) ----
    losssettings,   \* gen.losssettings: category -> [enabled, value]
    lossesparams,   \* the dict lossparamsforgenerator returns
    totallosspct,   \* pvwatts_losses(**lossesparams)
    lossfactor,     \* (100.0 - totallosspct) / 100.0
    lpc,            \* "config" while the sidebar is edited, "computed" after
    \* ---- aggregation (streamlit_app Execute handler, generator loop) ----
    genhourly,      \* per generator, its hourly[["acpowerw", "generationkwh"]]
    totalhourly,    \* total_hourly: << >> while None, then a frame
    gi,             \* number of generators added so far
    apc,            \* "loop" in the generator loop, "done" after results["Total"]
    \* ---- energy integration (computepvforgenerator) ----
    eindex,         \* weatherhourly.index, timestamps in minutes
    acwafterlosses, \* AC power per timestep, in W
    ackwh,          \* generationkwh per timestep, in W * minute
    epc,            \* "start", then "done"
    \* ---- irradiance adjustment (computepvforgenerator), one timestep ----
    solarel,        \* apparent solar elevation, in degrees
    horizonattime,  \* horizon elevation at the solar azimuth, in degrees
    dni,            \* raw direct normal irradiance cell
    ghi,            \* raw global horizontal irradiance cell
    dhi,            \* raw diffuse horizontal irradiance cell
    dniadj,         \* adjusted DNI
    ghiadj,         \* adjusted GHI
    dhiadj,         \* adjusted DHI
    ipc,            \* "start", "adjusted", "corrected"
    \* ---- generator configuration (GeneratorConfig, computepvforgenerator) ----
    mounting,       \* gen.mounting
    facetype,       \* gen.facetype
    bifacialityfactorpct, \* gen.bifacialityfactorpct
    bifaciality,    \* gen.bifacialityfactor(), in percent
    tset,           \* gen.tempparameterset()
    tpc,            \* "start", "irradiance", "tset", "returned", "failed"
    \* ---- Execute handler (streamlit_app) ----
    generators,     \* st.session_state.generators, by name
    results,        \* st.session_state.results
    cappedmessage,  \* st.session_state.capped_message
    calcenddate,    \* st.session_state.calc_end_date
    capped,         \* the handler's local capped
    calcend,        \* the handler's local calc_end_date
    localresults,   \* the handler's local results dict, by key
    rgi,            \* generators converted so far in the run
    runs,           \* number of Execute clicks so far
    outcome,        \* how the latest click ended, "running" while under way
    producer,       \* what the run that stored the results had computed
    rpc             \* "idle", "fetch", "gen", "store"

hvars == <<hbase, genobstacles, baseelev, full, hk, hpc>>
svars == <<hassnowfall, st, currentfactor, factort, prevfactor, lastsnow, lastevent, spc>>

wvars == <<startdate, enddate, todaylocal, archivecall, forecastcall, hourlyparts, hourly, wpc>>

lvars == <<losssettings, lossesparams, totallosspct, lossfactor, lpc>>

avars == <<genhourly, totalhourly, gi, apc>>
evars == <<eindex, acwafterlosses, ackwh, epc>>
ivars == <<solarel, horizonattime, dni, ghi, dhi, dniadj, ghiadj, dhiadj, ipc>>
tvars == <<mounting, facetype, bifacialityfactorpct, bifaciality, tset, tpc>>
rvars ==
    <<generators, results, cappedmessage, calcenddate, capped, calcend,
      localresults, rgi, runs, outcome, producer, rpc>>

vars == <<hvars, svars, wvars, lvars, avars, evars, ivars, tvars, rvars>>

\* What a component's actions leave alone: the other components.
notH == <<svars, wvars, lvars, avars, evars, ivars, tvars, rvars>>
notS == <<hvars, wvars, lvars, avars, evars, ivars, tvars, rvars>>
notW == <<hvars, svars, lvars, avars, evars, ivars, tvars, rvars>>
notL == <<hvars, svars, wvars, avars, evars, ivars, tvars, rvars>>
notA == <<hvars, svars, wvars, lvars, evars, ivars, tvars, rvars>>
notE == <<hvars, svars, wvars, lvars, avars, ivars, tvars, rvars>>
notI == <<hvars, svars, wvars, lvars, avars, evars, tvars, rvars>>
notT == <<hvars, svars, wvars, lvars, avars, evars, ivars, rvars>>
notR == <<hvars, svars, wvars, lvars, avars, evars, ivars, tvars>>

Max(a, b) == IF a >= b THEN a ELSE b
Min(a, b) == IF a <= b THEN a ELSE b

(***************************************************************************)
(* Horizon profile                                                         *)
(***************************************************************************)

\* Bound: the longest obstacle list of a generator.
MaxObs == 3

\* np.arange(360): the integer-degree azimuth grid.
NAz == 360
AzGrid == 0 .. (NAz - 1)
FullCircle == NAz * 1000

\* math.degrees(math.atan2(y, x)) in milli-degrees, tabulated for the
\* ratios y/x the obstacle geometries below produce (y, x >= 0).
AtanDegMilli(y, x) ==
    CASE y = 0                     -> 0        \* atan2(0, x) = 0, also x = 0
      [] y > 0 /\ x = 0            -> 90000
      [] x > 0 /\ y = x            -> 45000
      [] x > 0 /\ 2 * y = x        -> 26565
      [] x > 0 /\ y = 2 * x        -> 63435
      [] x > 0 /\ 4 * y = x        -> 14036
      [] x > 0 /\ 10 * y = x       -> 5711
      [] x > 0 /\ 100 * y = x      -> 573
      [] x > 0 /\ 123 * y = 61 * x -> 26378
      [] x > 0 /\ 123 * y = 60 * x -> 26003

\* obstacleazrange: <<azstart, azend>>, both reduced mod 360.
\* atan2(widthm / 2.0, distm) is taken as atan2(widthm, 2 * distm).
obstacleazrange(centerazdeg, distm, widthm) ==
    LET halfwidthangle == AtanDegMilli(widthm, 2 * distm)
    IN  << (centerazdeg - halfwidthangle) % FullCircle,
           (centerazdeg + halfwidthangle) % FullCircle >>

obstacleelevationdeg(distm, heightm) == AtanDegMilli(heightm, distm)

\* A plausible slip: the wrap-around branch is forgotten.
ObstacleMaskNoWrap(azstart, azend, az) == az >= azstart /\ az <= azend

\* The mask of applyobstacletohorizon at grid azimuth az (milli-degrees).
ObstacleMask(azstart, azend, az) ==
    IF azstart <= azend
    THEN az >= azstart /\ az <= azend
    ELSE az >= azstart \/ az <= azend

\* A plausible slip: the masked points are assigned instead of raised.
applyobstacletohorizonAssign(fullhorizondeg, obstacle) ==
    LET r    == obstacleazrange(obstacle.centerazdeg, obstacle.distm, obstacle.widthm)
        elev == obstacleelevationdeg(obstacle.distm, obstacle.heightm)
    IN  [g \in AzGrid |->
            IF ObstacleMask(r[1], r[2], g * 1000) THEN elev ELSE fullhorizondeg[g]]

applyobstacletohorizon(fullhorizondeg, obstacle) ==
    LET r    == obstacleazrange(obstacle.centerazdeg, obstacle.distm, obstacle.widthm)
        elev == obstacleelevationdeg(obstacle.distm, obstacle.heightm)
    IN  [g \in AzGrid |->
            IF ObstacleMask(r[1], r[2], g * 1000)
            THEN Max(fullhorizondeg[g], elev)
            ELSE fullhorizondeg[g]]

\* np.interp(azgrid, xp, fp, period=360) at integer degree x; the curve is
\* a sequence of <<azimuth degree, elevation milli-degree>> sorted by azimuth.
InterpPeriodic(x, curve) ==
    LET n  == Len(curve)
        le == {i \in 1 .. n : curve[i][1] <= x}
        k  == IF le = {} THEN 0 ELSE CHOOSE i \in le : \A j \in le : j <= i
        l  == IF k = 0 THEN <<curve[n][1] - NAz, curve[n][2]>> ELSE curve[k]
        r  == IF k = n THEN <<curve[1][1] + NAz, curve[1][2]>> ELSE curve[k + 1]
    IN  l[2] + ((x - l[1]) * (r[2] - l[2])) \div (r[1] - l[1])

\* loadhorizonbase: the flat curve of HORIZONMODE = "flat", and two sparse
\* curves as the horizon service or a csv file supplies them.
loadhorizonbase ==
    { << <<0, 0>> >>,
      << <<0, 10000>>, <<90, 0>>, <<180, 50000>>, <<270, 30000>> >>,
      << <<45, 2000>>, <<315, 70000>> >> }

\* The generator's obstacles: a record per obstacle, as the sidebar keeps it.
\* A disabled entry keeps its geometry for later re-enabling.
ObstacleChoices ==
    { [enabled |-> TRUE,  centerazdeg |-> 200000, distm |-> 123, heightm |-> 60,  widthm |-> 122],
      [enabled |-> TRUE,  centerazdeg |-> 0,      distm |-> 10,  heightm |-> 10,  widthm |-> 20],
      [enabled |-> TRUE,  centerazdeg |-> 359500, distm |-> 100, heightm |-> 200, widthm |-> 2],
      [enabled |-> TRUE,  centerazdeg |-> 350000, distm |-> 10,  heightm |-> 1,   widthm |-> 5],
      [enabled |-> TRUE,  centerazdeg |-> 200500, distm |-> 5,   heightm |-> 5,   widthm |-> 0],
      [enabled |-> TRUE,  centerazdeg |-> 180000, distm |-> 0,   heightm |-> 3,   widthm |-> 2],
      [enabled |-> FALSE, centerazdeg |-> 90000,  distm |-> 10,  heightm |-> 20,  widthm |-> 20] }

\* Lists of pairwise different obstacles, at most MaxObs long.
ObstacleLists ==
    UNION { { s \in [1 .. n -> ObstacleChoices] :
                \A i, j \in 1 .. n : i # j => s[i] # s[j] } : n \in 0 .. MaxObs }

\* streamlit_app: obstaclesenabled = [o for o in gen.obstacles if o.get("enabled")]
IsEnabled(o) == o.enabled
obstaclesenabled(obs) == SelectSeq(obs, IsEnabled)

\* buildhorizonprofile up to the first k obstacles of the list.
RECURSIVE buildhorizonprofileUpTo(_, _, _)
buildhorizonprofileUpTo(base, obstacles, k) ==
    IF k = 0 THEN base
    ELSE applyobstacletohorizon(buildhorizonprofileUpTo(base, obstacles, k - 1), obstacles[k])

buildhorizonprofile(base, obstacles) ==
    buildhorizonprofileUpTo(base, obstacles, Len(obstacles))

HInit ==
    /\ hbase \in loadhorizonbase
    /\ genobstacles \in ObstacleLists
    /\ baseelev = [g \in AzGrid |-> InterpPeriodic(g, hbase)]
    /\ full = baseelev
    /\ hk = 0
    /\ hpc = "loop"

\* One pass of `for obs in obstacles: full = applyobstacletohorizon(full, obs)`.
HApplyObstacle ==
    /\ hpc = "loop"
    /\ hk < Len(obstaclesenabled(genobstacles))
    /\ full' = applyobstacletohorizon(full, obstaclesenabled(genobstacles)[hk + 1])
    /\ hk' = hk + 1
    /\ UNCHANGED <<hbase, genobstacles, baseelev, hpc>>
    /\ UNCHANGED notH

\* `return full`
HReturn ==
    /\ hpc = "loop"
    /\ hk = Len(obstaclesenabled(genobstacles))
    /\ hpc' = "done"
    /\ UNCHANGED <<hbase, genobstacles, baseelev, full, hk>>
    /\ UNCHANGED notH

HNext == HApplyObstacle \/ HReturn

\* ---- claims about the horizon profile ----

\* All orderings of a sequence.
Perms(s) ==
    LET n == Len(s)
    IN  { [i \in 1 .. n |-> s[f[i]]] :
            f \in {h \in [1 .. n -> 1 .. n] : \A i, j \in 1 .. n : i # j => h[i] # h[j]} }

\* C1: for any base curve and any list of enabled obstacles, the returned
\* profile is the one buildhorizonprofile yields for every permutation of
\* the obstacle list.
C1_OrderIndependent ==
    hpc = "done" =>
        \A p \in Perms(obstaclesenabled(genobstacles)) :
            buildhorizonprofile(baseelev, p) = full

\* Two enabled obstacles cover a common grid point with different elevations.
OverlappingPair(obs) ==
    \E i, j \in 1 .. Len(obs) : \E g \in AzGrid :
        LET ri == obstacleazrange(obs[i].centerazdeg, obs[i].distm, obs[i].widthm)
            rj == obstacleazrange(obs[j].centerazdeg, obs[j].distm, obs[j].widthm)
        IN  /\ i # j
            /\ ObstacleMask(ri[1], ri[2], g * 1000)
            /\ ObstacleMask(rj[1], rj[2], g * 1000)
            /\ obstacleelevationdeg(obs[i].distm, obs[i].heightm)
                 # obstacleelevationdeg(obs[j].distm, obs[j].heightm)

C1_Witness ==
    /\ hpc = "done"
    /\ Len(obstaclesenabled(genobstacles)) = 3
    /\ OverlappingPair(obstaclesenabled(genobstacles))
    /\ full # baseelev

\* Grid azimuth g (degrees) lies in the inclusive arc [A - W, A + W] mod 360.
InArc(g, A, W) ==
    \E k \in {-1, 0, 1} :
        /\ A - W <= g * 1000 + k * FullCircle
        /\ g * 1000 + k * FullCircle <= A + W

\* C2: after a single obstacle with centre A, half-width W = atan2(width/2,
\* distance) and elevation E = atan2(height, distance) is applied, every grid
\* point inside [A - W, A + W] mod 360 is max(base, E), so the value at A is
\* E when E exceeds the base; every grid point outside equals the base; and
\* no grid point of the profile is ever below the base curve.
C2_SingleObstacle ==
    /\ \A g \in AzGrid : full[g] >= baseelev[g]
    /\ hk = 1 =>
        LET o == obstaclesenabled(genobstacles)[1]
            A == o.centerazdeg
            W == AtanDegMilli(o.widthm, 2 * o.distm)
            E == AtanDegMilli(o.heightm, o.distm)
        IN  /\ \A g \in AzGrid :
                  IF InArc(g, A, W)
                  THEN full[g] = Max(baseelev[g], E)
                  ELSE full[g] = baseelev[g]
            /\ (A % 1000 = 0 /\ E > baseelev[(A \div 1000) % NAz])
                  => full[(A \div 1000) % NAz] = E

\* A single obstacle whose interval wraps across 0 degrees raised some grid
\* points and left others at the base.
C2_Witness ==
    /\ hk = 1
    /\ LET o == obstaclesenabled(genobstacles)[1]
           A == o.centerazdeg
           W == AtanDegMilli(o.widthm, 2 * o.distm)
       IN  /\ (A - W < 0 \/ A + W >= FullCircle)
           /\ A % 1000 = 0
           /\ full[0] > baseelev[0]
           /\ full[NAz - 1] > baseelev[NAz - 1]
           /\ \E g \in AzGrid : InArc(g, A, W) /\ full[g] = baseelev[g]
           /\ \E g \in AzGrid : ~InArc(g, A, W) /\ full[g] = baseelev[g]

(***************************************************************************)
(* Snow loss factor                                                        *)
(*                                                                         *)
(* The factor is a Python float (IEEE-754 binary64).  Every value it takes *)
(* lies in [0.5, 1], where binary64 values are the multiples of 2^-53, so  *)
(* a value is modelled exactly as its number of such units, held in two    *)
(* limbs <<hi, lo>> = hi * 2^27 + lo.                                      *)
(***************************************************************************)

\* Bound: the longest weather index scanned.
MaxSnowSteps == 52

LimbBase == 2 ^ 27

DAdd(a, b) ==
    LET lo == a[2] + b[2]
    IN  <<a[1] + b[1] + (lo \div LimbBase), lo % LimbBase>>

\* a - b for a >= b
DSub(a, b) ==
    LET lo == a[2] - b[2]
    IN  IF lo >= 0 THEN <<a[1] - b[1], lo>> ELSE <<a[1] - b[1] - 1, lo + LimbBase>>

DLess(a, b) == a[1] < b[1] \/ (a[1] = b[1] /\ a[2] < b[2])
DLeq(a, b) == a = b \/ DLess(a, b)
DMin(a, b) == IF DLess(b, a) THEN b ELSE a

\* 1.0 = 2^53 units
DOne == <<2 ^ 26, 0>>

\* SNOWLOSSONEVENT = 0.4, the binary64 value 3602879701896397 * 2^-53
SNOWLOSSONEVENT == <<26843545, 80530637>>

\* SNOWRECOVERYDAYS = 2.0; recoveryhours = SNOWRECOVERYDAYS * 24.0
SNOWRECOVERYDAYS == 2
recoveryhours == SNOWRECOVERYDAYS * 24

\* SNOWFALLTHRESHOLDMMPERH = 0.5, in tenths of a millimetre per hour
SNOWFALLTHRESHOLDMMPERH == 5

\* SNOWLOSSONEVENT / max(recoveryhours, 1.0) = 0.4 / 48.0, the binary64
\* value 4803839602528529 * 2^-59: 75059993789508 units and 17/64 of a unit.
RecoveryIncrement == [units |-> <<559240, 71582788>>, frac64 |-> 17]

\* binary64 addition x + inc for x in [0.5, 1): the exact sum is rounded to
\* the nearest unit, a tie to the even one.  (A sum of 1.0 or more is only
\* ever compared with 1.0 by min, so its coarser rounding is immaterial.)
FloatAdd(x, inc) ==
    LET whole == DAdd(x, inc.units)
        up    == IF 2 * inc.frac64 > 64 THEN 1
                 ELSE IF 2 * inc.frac64 = 64 /\ whole[2] % 2 = 1 THEN 1
                 ELSE 0
    IN  DAdd(whole, <<0, up>>)

\* The cells a snowfall column holds: a number (tenths of mm/h) or a
\* missing value, which pd.to_numeric(...).fillna(0.0) turns into 0.
SnowfallCells ==
    { [nan |-> TRUE, v |-> 0], [nan |-> FALSE, v |-> 0], [nan |-> FALSE, v |-> 4],
      [nan |-> FALSE, v |-> 5], [nan |-> FALSE, v |-> 10] }

ToNumericFillna(cell) == IF cell.nan THEN 0 ELSE cell.v

\* A plausible slip: a strict comparison with the threshold.
snoweventStrict(cell) == ToNumericFillna(cell) > SNOWFALLTHRESHOLDMMPERH

\* snowevent = snowfall >= SNOWFALLTHRESHOLDMMPERH
snowevent(cell) == ToNumericFillna(cell) >= SNOWFALLTHRESHOLDMMPERH

\* A plausible slip: the recovery is not clamped at 1.0.
snowstepNoClamp(cf, cell) ==
    IF snowevent(cell) THEN DSub(DOne, SNOWLOSSONEVENT)
    ELSE IF DLess(cf, DOne) THEN FloatAdd(cf, RecoveryIncrement)
    ELSE cf

\* The body of `for t in index`: the new currentfactor.
snowstep(cf, cell) ==
    IF snowevent(cell) THEN DSub(DOne, SNOWLOSSONEVENT)
    ELSE IF DLess(cf, DOne) THEN DMin(DOne, FloatAdd(cf, RecoveryIncrement))
    ELSE cf

SInit ==
    /\ hassnowfall \in BOOLEAN
    /\ st = 0
    /\ currentfactor = DOne
    /\ factort = DOne
    /\ prevfactor = DOne
    /\ lastsnow = [nan |-> TRUE, v |-> 0]
    /\ lastevent = 0
    /\ spc = "loop"

\* One timestep of the scan: factor[t] = currentfactor after the rule.
SStep ==
    /\ spc = "loop"
    /\ hassnowfall
    /\ st < MaxSnowSteps
    /\ \E cell \in SnowfallCells :
        /\ currentfactor' = snowstep(currentfactor, cell)
        /\ lastsnow' = cell
        /\ lastevent' = IF snowevent(cell) THEN st + 1 ELSE lastevent
    /\ factort' = currentfactor'
    /\ prevfactor' = currentfactor
    /\ st' = st + 1
    /\ UNCHANGED <<hassnowfall, spc>>
    /\ UNCHANGED notS

\* `if snowfallmmperh is None: return pd.Series(1.0, index=index)`
SReturnNoData ==
    /\ spc = "loop"
    /\ ~hassnowfall
    /\ factort' = DOne
    /\ spc' = "done"
    /\ UNCHANGED <<hassnowfall, st, currentfactor, prevfactor, lastsnow, lastevent>>
    /\ UNCHANGED notS

\* `return factor` at the end of the index
SReturn ==
    /\ spc = "loop"
    /\ hassnowfall
    /\ spc' = "done"
    /\ UNCHANGED <<hassnowfall, st, currentfactor, factort, prevfactor, lastsnow, lastevent>>
    /\ UNCHANGED notS

SNext == SStep \/ SReturnNoData \/ SReturn

\* ---- claims about the snow loss factor ----

\* C3: at every step of the scan the produced snow factor lies in
\* [1 - SNOWLOSSONEVENT, 1].
C3_FactorInRange ==
    /\ DLeq(DSub(DOne, SNOWLOSSONEVENT), factort)
    /\ DLeq(factort, DOne)

\* The recovery reached the clamp: a factor below 1.0 became exactly 1.0.
C3_Witness ==
    /\ st > 0
    /\ DLess(prevfactor, DOne)
    /\ factort = DOne
    /\ ~snowevent(lastsnow)

\* C4: when the snowfall of step t is at or above the threshold, the factor
\* produced for step t is 1 - SNOWLOSSONEVENT, whatever it was at step t-1.
C4_EventSetsFactor ==
    (st > 0 /\ hassnowfall /\ ~lastsnow.nan /\ lastsnow.v >= SNOWFALLTHRESHOLDMMPERH)
        => factort = DSub(DOne, SNOWLOSSONEVENT)

\* An event exactly at the threshold, hitting a factor that was mid-recovery.
C4_Witness ==
    /\ st > 0
    /\ lastsnow = [nan |-> FALSE, v |-> SNOWFALLTHRESHOLDMMPERH]
    /\ DLess(DSub(DOne, SNOWLOSSONEVENT), prevfactor)
    /\ DLess(prevfactor, DOne)
    /\ factort = DSub(DOne, SNOWLOSSONEVENT)

\* An event hitting a fully recovered factor.
C4_WitnessRecovered ==
    /\ st > 1
    /\ snowevent(lastsnow)
    /\ prevfactor = DOne
    /\ factort = DSub(DOne, SNOWLOSSONEVENT)

\* C5: after a snow event at step t followed only by non-event steps, the
\* factor strictly increases at every step while it is below 1.0, first
\* equals exactly 1.0 at step t + recoveryDays * 24, and stays 1.0 afterwards.
C5_RecoveryReachesOne ==
    (lastevent > 0 /\ st > lastevent) =>
        /\ DLess(prevfactor, DOne) => DLess(prevfactor, factort)
        /\ st - lastevent < recoveryhours => DLess(factort, DOne)
        /\ st - lastevent >= recoveryhours => factort = DOne

(***************************************************************************)
(* Weather stitching                                                       *)
(*                                                                         *)
(* A date is <<year, month, day>>.  A "%Y-%m-%d" string is modelled by its *)
(* digits read as one number, 2024-02-29 as 20240229.  A timestamp is      *)
(* <<date, hour>>; a row of an hourly frame is its timestamp and the       *)
(* source that supplied it.                                                *)
(***************************************************************************)

\* Bound: the number of calendar days the requested range and "today" are
\* drawn from.
MaxDays == 4

\* Bound: the longest hourly frame a source returns.
MaxRows == 2

IsLeap(y) == (y % 4 = 0 /\ y % 100 # 0) \/ y % 400 = 0

DaysInMonth(y, mo) ==
    IF mo \in {4, 6, 9, 11} THEN 30
    ELSE IF mo = 2 THEN (IF IsLeap(y) THEN 29 ELSE 28)
    ELSE 31

\* d + timedelta(days=1)
NextDay(d) ==
    IF d[3] < DaysInMonth(d[1], d[2]) THEN <<d[1], d[2], d[3] + 1>>
    ELSE IF d[2] < 12 THEN <<d[1], d[2] + 1, 1>>
    ELSE <<d[1] + 1, 1, 1>>

\* d - timedelta(days=1)
PrevDay(d) ==
    IF d[3] > 1 THEN <<d[1], d[2], d[3] - 1>>
    ELSE IF d[2] > 1 THEN <<d[1], d[2] - 1, DaysInMonth(d[1], d[2] - 1)>>
    ELSE <<d[1] - 1, 12, 31>>

\* date comparison
DateLess(a, b) ==
    \/ a[1] < b[1]
    \/ a[1] = b[1] /\ a[2] < b[2]
    \/ a[1] = b[1] /\ a[2] = b[2] /\ a[3] < b[3]
DateLeq(a, b) == a = b \/ DateLess(a, b)
DateMin(a, b) == IF DateLess(b, a) THEN b ELSE a
DateMax(a, b) == IF DateLess(a, b) THEN b ELSE a

\* datetime.strptime(s, "%Y-%m-%d").date()
parseymd(s) == <<s \div 10000, (s \div 100) % 100, s % 100>>

\* d.strftime("%Y-%m-%d")
formatymd(d) == d[1] * 10000 + d[2] * 100 + d[3]

\* The calendar window: day 0 is 2024-02-27, so the window crosses the end
\* of a leap-year February.
RECURSIVE DayN(_)
DayN(n) == IF n = 0 THEN <<2024, 2, 27>> ELSE NextDay(DayN(n - 1))

RequestDates == {DayN(n) : n \in 1 .. MaxDays}
CalendarDates == {DayN(n) : n \in 0 .. MaxDays + 1}

\* The timestamps a source may report: the hours around local midnight of
\* "today", where a stale archive hour and a forecast hour can coincide.
BoundaryTimes(today) == { <<PrevDay(today), 23>>, <<today, 0>>, <<today, 1>> }

TimeLess(a, b) == DateLess(a[1], b[1]) \/ (a[1] = b[1] /\ a[2] < b[2])

\* The hourly frames a source may return: up to MaxRows rows, in any order.
SourceFrames(src, today) ==
    UNION { [1 .. n -> {[time |-> ts, src |-> src] : ts \in BoundaryTimes(today)}]
            : n \in 0 .. MaxRows }

\* A plausible slip: the archive range runs up to today instead of yesterday.
archiveendToday(ed, today) == DateMin(ed, today)

\* archiveend = min(ed, todaylocal - timedelta(days=1))
archiveend(ed, today) == DateMin(ed, PrevDay(today))

\* forecaststart = max(sd, todaylocal)
forecaststart(sd, today) == DateMax(sd, today)

\* pd.concat(hourlyparts, axis=0)
RECURSIVE ConcatParts(_)
ConcatParts(parts) ==
    IF parts = << >> THEN << >> ELSE Head(parts) \o ConcatParts(Tail(parts))

\* A plausible slip: keep="first".
DropDuplicatedKeepFirst(rows) ==
    LET keep == {i \in 1 .. Len(rows) : \A j \in 1 .. (i - 1) : rows[j].time # rows[i].time}
        F[i \in 0 .. Len(rows)] ==
            IF i = 0 THEN << >>
            ELSE IF i \in keep THEN Append(F[i - 1], rows[i]) ELSE F[i - 1]
    IN  F[Len(rows)]

\* hourly[~hourly.index.duplicated(keep="last")]
DropDuplicatedKeepLast(rows) ==
    LET keep == {i \in 1 .. Len(rows) : \A j \in (i + 1) .. Len(rows) : rows[j].time # rows[i].time}
        F[i \in 0 .. Len(rows)] ==
            IF i = 0 THEN << >>
            ELSE IF i \in keep THEN Append(F[i - 1], rows[i]) ELSE F[i - 1]
    IN  F[Len(rows)]

\* .sort_index(): ascending by timestamp (the index is duplicate-free here;
\* among equal timestamps the earlier row is taken first).
RECURSIVE SortIndex(_)
SortIndex(rows) ==
    IF rows = << >> THEN << >>
    ELSE LET i == CHOOSE k \in 1 .. Len(rows) :
                    /\ \A j \in 1 .. Len(rows) : ~TimeLess(rows[j].time, rows[k].time)
                    /\ \A j \in 1 .. (k - 1) : rows[j].time # rows[k].time
             rest == [j \in 1 .. (Len(rows) - 1) |-> IF j < i THEN rows[j] ELSE rows[j + 1]]
         IN  <<rows[i]>> \o SortIndex(rest)

WInit ==
    /\ startdate \in {formatymd(d) : d \in RequestDates}
    /\ enddate \in {formatymd(d) : d \in RequestDates}
    /\ todaylocal \in RequestDates
    /\ archivecall = << >>
    /\ forecastcall = << >>
    /\ hourlyparts = << >>
    /\ hourly = << >>
    /\ wpc = "start"

\* sd, ed = parseymd(...); `if ed < sd: raise ValueError`
WParse ==
    /\ wpc = "start"
    /\ wpc' = IF DateLess(parseymd(enddate), parseymd(startdate)) THEN "error" ELSE "archive"
    /\ UNCHANGED <<startdate, enddate, todaylocal, archivecall, forecastcall, hourlyparts, hourly>>
    /\ UNCHANGED notW

\* The archive block: the call is made when sd <= archiveend, and a
\* non-empty frame is appended.
WArchive ==
    /\ wpc = "archive"
    /\ LET sd == parseymd(startdate)
           ae == archiveend(parseymd(enddate), todaylocal)
       IN  IF DateLeq(sd, ae)
           THEN /\ archivecall' = <<formatymd(sd), formatymd(ae)>>
                /\ \E h \in SourceFrames("archive", todaylocal) :
                      hourlyparts' = IF h # << >> THEN Append(hourlyparts, h) ELSE hourlyparts
           ELSE UNCHANGED <<archivecall, hourlyparts>>
    /\ wpc' = "forecast"
    /\ UNCHANGED <<startdate, enddate, todaylocal, forecastcall, hourly>>
    /\ UNCHANGED notW

\* The forecast block.
WForecast ==
    /\ wpc = "forecast"
    /\ LET ed == parseymd(enddate)
           fs == forecaststart(parseymd(startdate), todaylocal)
       IN  IF DateLeq(fs, ed)
           THEN /\ forecastcall' = <<formatymd(fs), formatymd(ed)>>
                /\ \E h \in SourceFrames("forecast", todaylocal) :
                      hourlyparts' = IF h # << >> THEN Append(hourlyparts, h) ELSE hourlyparts
           ELSE UNCHANGED <<forecastcall, hourlyparts>>
    /\ wpc' = "merge"
    /\ UNCHANGED <<startdate, enddate, todaylocal, archivecall, hourly>>
    /\ UNCHANGED notW

\* res.raise_for_status() raises in a source that is called: the exception
\* leaves getweatherdatamixed.
WFetchFails ==
    /\ \/ /\ wpc = "archive"
          /\ DateLeq(parseymd(startdate), archiveend(parseymd(enddate), todaylocal))
          /\ archivecall' = <<formatymd(parseymd(startdate)),
                             formatymd(archiveend(parseymd(enddate), todaylocal))>>
          /\ UNCHANGED forecastcall
       \/ /\ wpc = "forecast"
          /\ DateLeq(forecaststart(parseymd(startdate), todaylocal), parseymd(enddate))
          /\ forecastcall' = <<formatymd(forecaststart(parseymd(startdate), todaylocal)),
                              formatymd(parseymd(enddate))>>
          /\ UNCHANGED archivecall
    /\ wpc' = "error"
    /\ UNCHANGED <<startdate, enddate, todaylocal, hourlyparts, hourly>>
    /\ UNCHANGED notW

\* concat, drop duplicated timestamps keeping the last, sort, return.
WMerge ==
    /\ wpc = "merge"
    /\ hourly' = IF hourlyparts # << >>
                 THEN SortIndex(DropDuplicatedKeepLast(ConcatParts(hourlyparts)))
                 ELSE << >>
    /\ wpc' = "done"
    /\ UNCHANGED <<startdate, enddate, todaylocal, archivecall, forecastcall, hourlyparts>>
    /\ UNCHANGED notW

WNext == WParse \/ WArchive \/ WForecast \/ WFetchFails \/ WMerge

\* ---- claims about the weather stitching ----

\* Date d lies in the inclusive range a source was called with.
InCall(d, call) ==
    /\ call # << >>
    /\ DateLeq(parseymd(call[1]), d)
    /\ DateLeq(d, parseymd(call[2]))

\* C6: once both source blocks have run for a range with start <= end, each
\* date of the range is queried from exactly one source, the archive for
\* dates up to and including yesterday and the forecast from today onward;
\* no date outside the range is queried; a range ending before today calls
\* only the archive, a range starting today or later only the forecast, and
\* a range spanning the boundary both.
C6_DatePartition ==
    wpc \in {"merge", "done"} =>
        LET sd == parseymd(startdate)
            ed == parseymd(enddate)
            yesterday == CHOOSE y \in CalendarDates : NextDay(y) = todaylocal
        IN  /\ \A d \in CalendarDates :
                  /\ InCall(d, archivecall)
                        <=> (DateLeq(sd, d) /\ DateLeq(d, ed) /\ DateLeq(d, yesterday))
                  /\ InCall(d, forecastcall)
                        <=> (DateLeq(sd, d) /\ DateLeq(d, ed) /\ DateLeq(todaylocal, d))
                  /\ ~(InCall(d, archivecall) /\ InCall(d, forecastcall))
            /\ DateLess(ed, todaylocal) => (archivecall # << >> /\ forecastcall = << >>)
            /\ DateLeq(todaylocal, sd) => (archivecall = << >> /\ forecastcall # << >>)
            /\ (DateLess(sd, todaylocal) /\ DateLeq(todaylocal, ed))
                  => (archivecall # << >> /\ forecastcall # << >>)

\* A range that spans the boundary, across the end of February.
C6_Witness ==
    /\ wpc = "done"
    /\ todaylocal = <<2024, 3, 1>>
    /\ archivecall = <<20240228, 20240229>>
    /\ forecastcall = <<20240301, 20240302>>

\* The timestamps of a sequence of rows.
Times(rows) == {rows[i].time : i \in 1 .. Len(rows)}

\* C7: the returned hourly series is strictly increasing in timestamp, holds
\* exactly the timestamps the sources returned, and carries the forecast row
\* for a timestamp the forecast source returned.
C7_MergedSeries ==
    wpc = "done" =>
        LET all == ConcatParts(hourlyparts)
        IN  /\ \A i \in 1 .. (Len(hourly) - 1) : TimeLess(hourly[i].time, hourly[i + 1].time)
            /\ Times(hourly) = Times(all)
            /\ \A i \in 1 .. Len(hourly) :
                  /\ \E j \in 1 .. Len(all) : all[j] = hourly[i]
                  /\ (\E j \in 1 .. Len(all) :
                         all[j].time = hourly[i].time /\ all[j].src = "forecast")
                        => hourly[i].src = "forecast"

\* Both sources returned the same timestamp, and the archive frame was not
\* in ascending order.
C7_Witness ==
    /\ wpc = "done"
    /\ Len(hourlyparts) = 2
    /\ \E i \in 1 .. Len(hourlyparts[1]) : \E j \in 1 .. Len(hourlyparts[2]) :
          hourlyparts[1][i].time = hourlyparts[2][j].time
    /\ Len(hourlyparts[1]) = 2
    /\ TimeLess(hourlyparts[1][2].time, hourlyparts[1][1].time)
    /\ Len(hourly) = 2

(***************************************************************************)
(* Loss stack                                                              *)
(*                                                                         *)
(* A loss percentage is held in tenths of a percent (1.0 % = 10), so the   *)
(* retained fraction of a category is (1000 - loss) / 1000.  Products of   *)
(* the ten retained fractions are exact fixed-point numbers with 30        *)
(* decimals: BigLen limbs of six decimal digits, least significant first.  *)
(***************************************************************************)

BigBase == 10 ^ 6
BigLen == 6
BigIdx == 1 .. BigLen

BigOfSmall(k) == [i \in BigIdx |-> IF i = 1 THEN k ELSE 0]

\* a * k + c for a small factor k and carry c, limb by limb
RECURSIVE BigMulCarry(_, _, _)
BigMulCarry(a, k, c) ==
    IF a = << >> THEN << >>
    ELSE LET p == Head(a) * k + c
         IN  <<p % BigBase>> \o BigMulCarry(Tail(a), k, p \div BigBase)

BigMulSmall(a, k) == BigMulCarry(a, k, 0)

\* a - b - w for a >= b + w, limb by limb
RECURSIVE BigSubBorrow(_, _, _)
BigSubBorrow(a, b, w) ==
    IF a = << >> THEN << >>
    ELSE LET d == Head(a) - Head(b) - w
         IN  <<d % BigBase>> \o BigSubBorrow(Tail(a), Tail(b), IF d < 0 THEN 1 ELSE 0)

BigSub(a, b) == BigSubBorrow(a, b, 0)

\* a + b + c, limb by limb
RECURSIVE BigAddCarry(_, _, _)
BigAddCarry(a, b, c) ==
    IF a = << >> THEN << >>
    ELSE LET t == Head(a) + Head(b) + c
         IN  <<t % BigBase>> \o BigAddCarry(Tail(a), Tail(b), t \div BigBase)

BigAdd(a, b) == BigAddCarry(a, b, 0)

\* 1.0 as a 30-decimal fixed-point number: 10^30
BigUnit == [i \in BigIdx |-> IF i = BigLen THEN 1 ELSE 0]

\* The parameters of pvlib.pvsystem.pvwatts_losses, in its order.
LossCategories ==
    << "soiling", "shading", "snow", "mismatch", "wiring", "connections",
       "lid", "nameplate_rating", "age", "availability" >>

\* LOSSPARAMS, in tenths of a percent.
LOSSPARAMS ==
    [ soiling |-> 10, shading |-> 0, snow |-> 0, mismatch |-> 10, wiring |-> 10,
      connections |-> 5, lid |-> 10, nameplate_rating |-> 10, age |-> 0,
      availability |-> 0 ]

ConfigurableKeys ==
    {"soiling", "mismatch", "wiring", "connections", "lid", "nameplate_rating",
     "age", "availability"}

\* defaultlosssettings()
defaultlosssettings ==
    [k \in ConfigurableKeys |-> [enabled |-> TRUE, value |-> LOSSPARAMS[k]]]

\* The settings after the user has set every loss input to 0.
zerolosssettings ==
    [k \in ConfigurableKeys |-> [enabled |-> TRUE, value |-> 0]]

\* The sidebar inputs the model edits, and the values entered: 0 %, 10 %, 20 %.
EditedKeys == {"soiling", "mismatch", "wiring", "connections"}
EnteredValues == {0, 100, 200}

\* A plausible slip: the enabled flag is ignored.
lossparamsforgeneratorIgnoreEnabled(settings) ==
    [k \in {"shading", "snow"} \cup DOMAIN settings \cup DOMAIN LOSSPARAMS |->
        IF k \in DOMAIN settings THEN settings[k].value
        ELSE IF k \in {"shading", "snow"} THEN 0
        ELSE LOSSPARAMS[k]]

\* lossparamsforgenerator(gen): shading and snow start at 0, every entry of
\* gen.losssettings is written (0 when disabled), and the LOSSPARAMS
\* defaults fill the categories still missing.
lossparamsforgenerator(settings) ==
    [k \in {"shading", "snow"} \cup DOMAIN settings \cup DOMAIN LOSSPARAMS |->
        IF k \in DOMAIN settings
        THEN (IF settings[k].enabled THEN settings[k].value ELSE 0)
        ELSE IF k \in {"shading", "snow"} THEN 0
        ELSE LOSSPARAMS[k]]

\* perf after the first i parameters, times 1000^i
RECURSIVE PerfUpTo(_, _)
PerfUpTo(params, i) ==
    IF i = 0 THEN BigOfSmall(1)
    ELSE BigMulSmall(PerfUpTo(params, i - 1), 1000 - params[LossCategories[i]])

\* pvlib.pvsystem.pvwatts_losses: perf = product of (1 - param / 100) over
\* its ten parameters; the result (1 - perf) * 100, here as a 30-decimal
\* fixed-point percentage.
pvwattslosses(params) ==
    BigMulSmall(BigSub(BigUnit, PerfUpTo(params, Len(LossCategories))), 100)

\* lossfactor = (100.0 - totallosspct) / 100.0, kept as its numerator over
\* 100: the 30-decimal fixed-point value of 100 * lossfactor.
lossfactorx100(total) == BigSub(BigMulSmall(BigUnit, 100), total)

LInit ==
    /\ losssettings \in {<< >>, defaultlosssettings, zerolosssettings}
    /\ lossesparams = << >>
    /\ totallosspct = << >>
    /\ lossfactor = << >>
    /\ lpc = "config"

\* The sidebar: gen.losssettings[k] = {"enabled": en, "value": val}
LSetLoss ==
    /\ lpc = "config"
    /\ \E k \in EditedKeys, en \in BOOLEAN, val \in EnteredValues :
          losssettings' =
              [c \in DOMAIN losssettings \cup {k} |->
                  IF c = k THEN [enabled |-> en, value |-> val] ELSE losssettings[c]]
    /\ UNCHANGED <<lossesparams, totallosspct, lossfactor, lpc>>
    /\ UNCHANGED notL

\* Execute: lossparams = lossparamsforgenerator(gen), then the loss lines of
\* computepvforgenerator.
LCompute ==
    /\ lpc = "config"
    /\ lossesparams' = lossparamsforgenerator(losssettings)
    /\ totallosspct' = pvwattslosses(lossesparams')
    /\ lossfactor' = lossfactorx100(totallosspct')
    /\ lpc' = "computed"
    /\ UNCHANGED losssettings
    /\ UNCHANGED notL

LNext == LSetLoss \/ LCompute

\* ---- claims about the loss stack ----

\* The loss of a category as the claim counts it: 0 for a disabled
\* category, the configured value for an enabled one, the LOSSPARAMS value
\* for a category the generator does not configure.
ClaimedLoss(settings, c) ==
    IF c \in DOMAIN settings
    THEN (IF settings[c].enabled THEN settings[c].value ELSE 0)
    ELSE LOSSPARAMS[c]

\* The product over all categories of (1 - loss / 100), 30 decimals.
RECURSIVE ClaimedRetained(_, _)
ClaimedRetained(settings, cats) ==
    IF cats = {} THEN BigOfSmall(1)
    ELSE LET c == CHOOSE x \in cats : TRUE
         IN  BigMulSmall(ClaimedRetained(settings, cats \ {c}), 1000 - ClaimedLoss(settings, c))

\* Soiling 10 %, mismatch disabled, wiring 20 %, every other category 0 %.
LossExample ==
    /\ DOMAIN losssettings = ConfigurableKeys
    /\ losssettings["soiling"] = [enabled |-> TRUE, value |-> 100]
    /\ ~losssettings["mismatch"].enabled
    /\ losssettings["wiring"] = [enabled |-> TRUE, value |-> 200]
    /\ \A k \in ConfigurableKeys \ {"soiling", "mismatch", "wiring"} :
          ClaimedLoss(losssettings, k) = 0

\* C8: the total loss percent is 100 * (1 - product over all categories of
\* (1 - loss_i / 100)) with a disabled category counted as 0 %, and the
\* derate applied to the AC power is that product; losses of 10 %, 0 % and
\* 20 % give a total of 28 %.
C8_MultiplicativeLoss ==
    lpc = "computed" =>
        LET retained == ClaimedRetained(losssettings, DOMAIN LOSSPARAMS)
        IN  /\ totallosspct = BigMulSmall(BigSub(BigUnit, retained), 100)
            /\ BigAdd(lossfactor, totallosspct) = BigMulSmall(BigUnit, 100)
            /\ lossfactor = BigMulSmall(retained, 100)
            /\ LossExample => totallosspct = BigMulSmall(BigUnit, 28)

\* The example, with a disabled category whose stored value is not 0.
C8_Witness ==
    /\ lpc = "computed"
    /\ LossExample
    /\ losssettings["mismatch"].value = 200
    /\ totallosspct = BigMulSmall(BigUnit, 28)
    /\ lossfactor = BigMulSmall(BigUnit, 72)

\* ---- lossparamsforgenerator called with any GeneratorConfig ----

\* The keys and entries of a losssettings map a caller may pass:
\* GeneratorConfig.losssettings is any Dict[str, Dict[str, Any]].
SettingKeys == {"shading", "snow", "soiling", "mismatch"}
SettingEntries == [enabled : BOOLEAN, value : {0, 100}]

AnyLossSettings ==
    UNION { [ks -> SettingEntries] : ks \in SUBSET SettingKeys }

LConfigInit ==
    /\ losssettings \in AnyLossSettings
    /\ lossesparams = << >>
    /\ totallosspct = << >>
    /\ lossfactor = << >>
    /\ lpc = "config"

LConfigNext == LCompute

\* C13: the returned parameter set always holds shading and snow, and
\* nothing in gen.losssettings changes them: both are 0.
C13_ShadingSnowFixed ==
    lpc = "computed" =>
        /\ {"shading", "snow"} \subseteq DOMAIN lossesparams
        /\ lossesparams["shading"] = 0
        /\ lossesparams["snow"] = 0

(***************************************************************************)
(* Portfolio aggregation                                                   *)
(*                                                                         *)
(* Every generator's hourly frame has the index of weatherhourly.  A cell  *)
(* of a column is a number or NaN (a missing value).                       *)
(***************************************************************************)

\* Bound: the number of generators of the portfolio.
MaxGens == 3

NaN == [nan |-> TRUE, v |-> 0]
Num(x) == [nan |-> FALSE, v |-> x]

\* The timestamps of weatherhourly.index in this component.
AggTimes == {1, 2}

\* The rows a generator's frame may hold: no value (the weather of that hour
\* was null), or a power in W with its energy in W * minute.
AggRows ==
    { [acpowerw |-> NaN, generationkwh |-> NaN],
      [acpowerw |-> Num(1000), generationkwh |-> Num(60000)],
      [acpowerw |-> Num(500), generationkwh |-> Num(30000)] }

\* One cell of DataFrame.add(other, fill_value=0.0): a value missing on one
\* side is taken as 0; missing on both sides, the result is missing.
addfillvalue(a, b) ==
    IF a.nan /\ b.nan THEN NaN
    ELSE Num((IF a.nan THEN 0 ELSE a.v) + (IF b.nan THEN 0 ELSE b.v))

\* total_hourly.add(cur, fill_value=0.0)
frameadd(total, cur) ==
    [t \in AggTimes |->
        [acpowerw |-> addfillvalue(total[t].acpowerw, cur[t].acpowerw),
         generationkwh |-> addfillvalue(total[t].generationkwh, cur[t].generationkwh)]]

AInit ==
    /\ genhourly \in UNION { [1 .. n -> [AggTimes -> AggRows]] : n \in 1 .. MaxGens }
    /\ totalhourly = << >>
    /\ gi = 0
    /\ apc = "loop"

\* One pass of the generator loop, after computepvforgenerator returned.
AAddGenerator ==
    /\ apc = "loop"
    /\ gi < Len(genhourly)
    /\ totalhourly' = IF totalhourly = << >>
                      THEN genhourly[gi + 1]
                      ELSE frameadd(totalhourly, genhourly[gi + 1])
    /\ gi' = gi + 1
    /\ UNCHANGED <<genhourly, apc>>
    /\ UNCHANGED notA

\* results["Total"] = {"hourly": total_hourly, ...}
AStoreTotal ==
    /\ apc = "loop"
    /\ gi = Len(genhourly)
    /\ apc' = "done"
    /\ UNCHANGED <<genhourly, totalhourly, gi>>
    /\ UNCHANGED notA

ANext == AAddGenerator \/ AStoreTotal

\* ---- claims about the aggregation ----

\* The sum over the first n generators of a column at t, a missing value
\* counted as 0.
RECURSIVE SumPower(_, _, _)
SumPower(frames, t, n) ==
    IF n = 0 THEN 0
    ELSE SumPower(frames, t, n - 1)
           + (IF frames[n][t].acpowerw.nan THEN 0 ELSE frames[n][t].acpowerw.v)

RECURSIVE SumEnergy(_, _, _)
SumEnergy(frames, t, n) ==
    IF n = 0 THEN 0
    ELSE SumEnergy(frames, t, n - 1)
           + (IF frames[n][t].generationkwh.nan THEN 0 ELSE frames[n][t].generationkwh.v)

\* C9: the Total hourly power and energy at each timestamp equal the sum
\* over all generators of the generator's value there, a generator without
\* a value counted as 0.
C9_TotalIsSum ==
    apc = "done" =>
        \A t \in AggTimes :
            /\ totalhourly[t].acpowerw = Num(SumPower(genhourly, t, Len(genhourly)))
            /\ totalhourly[t].generationkwh = Num(SumEnergy(genhourly, t, Len(genhourly)))

(***************************************************************************)
(* Energy integration                                                      *)
(*                                                                         *)
(* Time is in minutes and energy in W * minute: 1 kWh = 60000.             *)
(***************************************************************************)

\* Bound: the longest index integrated.
MaxIdx == 3

KWh == 1000 * 60

IndexTimes == {0, 30, 60, 120}
PowerValues == {0, 500, 1000}

\* The indexes computepvforgenerator is called with: getweatherdatamixed
\* returns its hourly frame sorted and free of duplicated timestamps, so the
\* index is strictly increasing.
WeatherIndexes ==
    UNION { { ix \in [1 .. n -> IndexTimes] : \A i \in 1 .. (n - 1) : ix[i] < ix[i + 1] }
            : n \in 1 .. MaxIdx }

\* A plausible slip: every timestep is taken to last one hour.
dthoursUniform(index, i) == 60

\* dthours = index.to_series().diff().dt.total_seconds().div(3600).fillna(1.0),
\* in minutes: the first difference is missing and becomes 1 hour.
dthours(index, i) == IF i = 1 THEN 60 ELSE index[i] - index[i - 1]

\* ackwh = (acwafterlosses / 1000.0) * dthours
generationkwh(index, acw) == [i \in 1 .. Len(index) |-> acw[i] * dthours(index, i)]

EInit ==
    /\ eindex \in WeatherIndexes
    /\ acwafterlosses \in [1 .. Len(eindex) -> PowerValues]
    /\ ackwh = << >>
    /\ epc = "start"

\* lines 318-319 of computepvforgenerator
EIntegrate ==
    /\ epc = "start"
    /\ ackwh' = generationkwh(eindex, acwafterlosses)
    /\ epc' = "done"
    /\ UNCHANGED <<eindex, acwafterlosses>>
    /\ UNCHANGED notE

\* The hourly frame is handed on to the aggregation.
EReturn ==
    /\ epc = "done"
    /\ epc' = "returned"
    /\ UNCHANGED <<eindex, acwafterlosses, ackwh>>
    /\ UNCHANGED notE

ENext == EIntegrate \/ EReturn

\* ---- claims about the energy integration ----

\* The elapsed minutes the claim assigns to timestep i: 1 hour for the first
\* sample and for a non-positive gap, the actual gap otherwise.
ClaimedElapsed(index, i) ==
    IF i = 1 THEN 60
    ELSE IF index[i] - index[i - 1] <= 0 THEN 60
    ELSE index[i] - index[i - 1]

ADJUSTGHIWHENDNIBLOCKED == TRUE

SolarElevations == {0 - 5, 0, 5, 20}
HorizonElevations == {0, 10}
IrradianceCells == {NaN, Num(0), Num(100), Num(300)}

\* isnight = solarel <= 0; isshaded = solarel < horizonattime
isnight(el) == el <= 0
isshaded(el, hor) == el < hor

\* Series.where(cond, other): the value where cond holds, other elsewhere
where(cell, cond, other) == IF cond THEN cell ELSE other

\* np.minimum, which propagates NaN
npminimum(a, b) ==
    IF a.nan \/ b.nan THEN NaN
    ELSE IF a.v <= b.v THEN a ELSE b

\* cell == 0.0, False for NaN
iszero(cell) == ~cell.nan /\ cell.v = 0

\* A plausible slip: the shading test is left out of the DNI adjustment.
adjustdniNightOnly(cell, shaded, night) == where(cell, ~night, Num(0))

\* dniadj = dni.where(~isshaded, 0.0).where(~isnight, 0.0)
adjustdni(cell, shaded, night) ==
    where(where(cell, ~shaded, Num(0)), ~night, Num(0))

\* ghiadj = ghi.where(~isnight, 0.0), and the same for dhi
adjusthorizontal(cell, night) == where(cell, ~night, Num(0))

\* ghirepl = np.minimum(ghiadj, dhiadj);
\* ghiadj = np.where(dniadj == 0.0, ghirepl, ghiadj)
correctghi(dnia, ghia, dhia) ==
    IF ADJUSTGHIWHENDNIBLOCKED
    THEN (IF iszero(dnia) THEN npminimum(ghia, dhia) ELSE ghia)
    ELSE ghia

IInit ==
    /\ solarel \in SolarElevations
    /\ horizonattime \in HorizonElevations
    /\ dni \in IrradianceCells
    /\ ghi \in IrradianceCells
    /\ dhi \in IrradianceCells
    /\ dniadj = NaN
    /\ ghiadj = NaN
    /\ dhiadj = NaN
    /\ ipc = "start"

\* lines 258-273
IAdjust ==
    /\ ipc = "start"
    /\ dniadj' = adjustdni(dni, isshaded(solarel, horizonattime), isnight(solarel))
    /\ ghiadj' = adjusthorizontal(ghi, isnight(solarel))
    /\ dhiadj' = adjusthorizontal(dhi, isnight(solarel))
    /\ ipc' = "adjusted"
    /\ UNCHANGED <<solarel, horizonattime, dni, ghi, dhi>>
    /\ UNCHANGED notI

\* lines 275-277
ICorrect ==
    /\ ipc = "adjusted"
    /\ ghiadj' = correctghi(dniadj, ghiadj, dhiadj)
    /\ ipc' = "corrected"
    /\ UNCHANGED <<solarel, horizonattime, dni, ghi, dhi, dniadj, dhiadj>>
    /\ UNCHANGED notI

INext == IAdjust \/ ICorrect

\* ---- claims about the irradiance adjustment ----

\* C12: adjusted DNI is 0 if shaded or night and the raw DNI otherwise;
\* adjusted DHI, and GHI before the correction, are 0 at night and the raw
\* value otherwise, shaded or not; after the correction, whenever adjusted
\* DNI is exactly 0 the GHI is the smaller of the night-adjusted GHI and DHI
\* and does not exceed the DHI, and otherwise it is left as it was.
C12_IrradianceAdjustment ==
    LET night == solarel <= 0
        shaded == solarel < horizonattime
        ghinight == IF night THEN Num(0) ELSE ghi
    IN  ipc \in {"adjusted", "corrected"} =>
          /\ dniadj = (IF shaded \/ night THEN Num(0) ELSE dni)
          /\ dhiadj = (IF night THEN Num(0) ELSE dhi)
          /\ ipc = "adjusted" => ghiadj = ghinight
          /\ (ipc = "corrected" /\ dniadj # Num(0)) => ghiadj = ghinight
          /\ (ipc = "corrected" /\ dniadj = Num(0)) =>
                /\ (ghinight.nan \/ dhiadj.nan) => ghiadj.nan
                /\ (~ghinight.nan /\ ~dhiadj.nan) =>
                      /\ ghiadj \in {ghinight, dhiadj}
                      /\ ghiadj.v <= ghinight.v
                      /\ ghiadj.v <= dhiadj.v

\* A daytime step shaded by the horizon: DNI 300 becomes 0, DHI stays 100
\* and GHI 300 is replaced by the diffuse 100.
C12_Witness ==
    /\ ipc = "corrected"
    /\ solarel = 5 /\ horizonattime = 10
    /\ dni = Num(300) /\ ghi = Num(300) /\ dhi = Num(100)
    /\ dniadj = Num(0) /\ ghiadj = Num(100) /\ dhiadj = Num(100)

(***************************************************************************)
(* The generator configuration computepvforgenerator resolves: the         *)
(* bifaciality factor and the temperature parameter set of the mounting.   *)
(***************************************************************************)

\* gen.mounting as a caller of GeneratorConfig can set it
MountingNames ==
    { "Open rack", "Close mount", "close mount", " Close Mount ", "Roof mount",
      "open_rack_glass_glass", "" }

\* gen.facetype
FaceTypes == { "Bifacial", "Monofacial", " bifacial ", "Glass" }

\* gen.bifacialityfactorpct: a number, or a value float() rejects
Unparsable == [ok |-> FALSE, v |-> 0]
Parsed(x) == [ok |-> TRUE, v |-> x]
BifacialityValues == { Unparsable, Parsed(0 - 10), Parsed(0), Parsed(70), Parsed(150) }

\* str(x).strip().lower(), on the strings of the model
striplower(x) ==
    CASE x = "Open rack" -> "open rack"
      [] x = "Close mount" -> "close mount"
      [] x = " Close Mount " -> "close mount"
      [] x = "Roof mount" -> "roof mount"
      [] x = "Bifacial" -> "bifacial"
      [] x = "Monofacial" -> "monofacial"
      [] x = " bifacial " -> "bifacial"
      [] x = "Glass" -> "glass"
      [] OTHER -> x

\* the keys of pvlib's TEMPERATURE_MODEL_PARAMETERS["sapm"]
TEMPERATUREMODELPARAMETERS ==
    { "open_rack_glass_glass", "close_mount_glass_glass",
      "open_rack_glass_polymer", "insulated_back_glass_polymer" }

\* GeneratorConfig.bifacialityfactor, in percent
bifacialityfactor(ft, pct) ==
    IF striplower(ft) # "bifacial" THEN 0
    ELSE Max(0, Min(100, IF pct.ok THEN pct.v ELSE 70))

\* GeneratorConfig.tempparameterset
tempparameterset(mnt) ==
    IF striplower(mnt) = "close mount" THEN "close_mount_glass_glass"
    ELSE "open_rack_glass_glass"

TInit ==
    /\ mounting \in MountingNames
    /\ facetype \in FaceTypes
    /\ bifacialityfactorpct \in BifacialityValues
    /\ bifaciality = 0
    /\ tset = ""
    /\ tpc = "start"

\* line 290: totalirrad uses gen.bifacialityfactor()
TIrradiance ==
    /\ tpc = "start"
    /\ bifaciality' = bifacialityfactor(facetype, bifacialityfactorpct)
    /\ tpc' = "irradiance"
    /\ UNCHANGED <<mounting, facetype, bifacialityfactorpct, tset>>
    /\ UNCHANGED notT

\* lines 292-295: the parameter set is looked up; a name that is not a key
\* of the sapm parameters raises ValueError.
TTempParams ==
    /\ tpc = "irradiance"
    /\ tset' = tempparameterset(mounting)
    /\ tpc' = IF tset' \notin TEMPERATUREMODELPARAMETERS THEN "failed" ELSE "tset"
    /\ UNCHANGED <<mounting, facetype, bifacialityfactorpct, bifaciality>>
    /\ UNCHANGED notT

\* lines 297-335: the hourly and daily frames are computed and returned
TReturn ==
    /\ tpc = "tset"
    /\ tpc' = "returned"
    /\ UNCHANGED <<mounting, facetype, bifacialityfactorpct, bifaciality, tset>>
    /\ UNCHANGED notT

TNext == TIrradiance \/ TTempParams \/ TReturn

\* ---- claims about the generator configuration ----

\* The mounting names the configuration knows (line 172, sidebar line 76),
\* compared as tempparameterset compares them.
KnownMounting(mnt) == striplower(mnt) \in {"open rack", "close mount"}

\* C14: when the mounting name is not a known one, computepvforgenerator
\* fails with a configuration error: it neither chooses a parameter set nor
\* returns an hourly or daily result.
C14_UnknownMountingFails ==
    ~KnownMounting(mounting) => tpc \in {"start", "irradiance", "failed"}

(***************************************************************************)
(* The Execute handler of streamlit_app.py.  Dates are day numbers         *)
(* relative to datetime.date.today(), which is day 0.                      *)
(***************************************************************************)

MaxRuns == 2

MAXFORECASTDAYS == 15
NoDate == 0 - 1

\* No stored results: st.session_state.results = None
NoResults == [run |-> 0, keys |-> {}]

\* f"Generator {n}"
GeneratorNames ==
    << "Generator 1", "Generator 2", "Generator 3", "Generator 4",
       "Generator 5", "Generator 6" >>

\* The dates the model enters in the sidebar.
StartDates == {0, 10}
EndDates == {5, 16}

\* calc_end_date and capped, lines 149-156
maxforecastdate(today) == today + MAXFORECASTDAYS
calcenddateof(enddt) == Min(enddt, maxforecastdate(0))
cappedof(enddt) == enddt > maxforecastdate(0)

\* The names of the generators, as a set.
Range(f) == { f[i] : i \in DOMAIN f }

\* Nothing stored yet, so no run has produced the results.
NoProducer == [capped |-> FALSE, calcend |-> NoDate, names |-> {}]

\* A plausible slip: each generator's result is put into the session state
\* as soon as it is computed.
sessionaftergeneratorPartial(session, local, run) == [run |-> run, keys |-> local]

\* results[gen.name] = {...} writes the handler's local dict; the session
\* state keeps what it had.
sessionaftergenerator(session, local, run) == session

RInit ==
    /\ generators = << GeneratorNames[1] >>
    /\ results = NoResults
    /\ cappedmessage = FALSE
    /\ calcenddate = NoDate
    /\ capped = FALSE
    /\ calcend = NoDate
    /\ localresults = {}
    /\ rgi = 0
    /\ runs = 0
    /\ outcome = "none"
    /\ producer = NoProducer
    /\ rpc = "idle"

\* lines 129-137: a generator is appended, named after the new length
RAddGenerator ==
    /\ rpc = "idle"
    /\ Len(generators) < MaxGens
    /\ generators' = Append(generators, GeneratorNames[Len(generators) + 1])
    /\ UNCHANGED <<results, cappedmessage, calcenddate, capped, calcend,
                   localresults, rgi, runs, outcome, producer, rpc>>
    /\ UNCHANGED notR

\* lines 125-127: st.session_state.generators.pop(i)
RDeleteGenerator ==
    /\ rpc = "idle"
    /\ \E i \in 1 .. Len(generators) :
          generators' = [j \in 1 .. (Len(generators) - 1) |->
                            IF j < i THEN generators[j] ELSE generators[j + 1]]
    /\ UNCHANGED <<results, cappedmessage, calcenddate, capped, calcend,
                   localresults, rgi, runs, outcome, producer, rpc>>
    /\ UNCHANGED notR

\* lines 143-147: Execute with no generator, or with the end before the
\* start, shows an error and does nothing else.
RExecuteRejected ==
    /\ rpc = "idle"
    /\ runs < MaxRuns
    /\ \E startdt \in StartDates, enddt \in EndDates :
          generators = << >> \/ startdt > enddt
    /\ runs' = runs + 1
    /\ outcome' = "rejected"
    /\ UNCHANGED <<generators, results, cappedmessage, calcenddate, capped,
                   calcend, localresults, rgi, producer, rpc>>
    /\ UNCHANGED notR

\* lines 148-161: the cap is computed and put into the session state, then
\* the run begins.
RExecute ==
    /\ rpc = "idle"
    /\ runs < MaxRuns
    /\ generators # << >>
    /\ \E startdt \in StartDates, enddt \in EndDates :
          /\ ~(startdt > enddt)
          /\ capped' = cappedof(enddt)
          /\ calcend' = calcenddateof(enddt)
    /\ cappedmessage' = capped'
    /\ calcenddate' = calcend'
    /\ runs' = runs + 1
    /\ outcome' = "running"
    /\ rpc' = "fetch"
    /\ UNCHANGED <<generators, results, localresults, rgi, producer>>
    /\ UNCHANGED notR

\* lines 163-171: the weather is fetched, results = {}, total_hourly = None
RFetch ==
    /\ rpc = "fetch"
    /\ localresults' = {}
    /\ rgi' = 0
    /\ rpc' = "gen"
    /\ UNCHANGED <<generators, results, cappedmessage, calcenddate, capped,
                   calcend, runs, outcome, producer>>
    /\ UNCHANGED notR

\* lines 173-190: one generator is converted and added to the total
RConvert ==
    /\ rpc = "gen"
    /\ rgi < Len(generators)
    /\ rgi' = rgi + 1
    /\ localresults' = localresults \cup {generators[rgi + 1]}
    /\ results' = sessionaftergenerator(results, localresults', runs)
    /\ UNCHANGED <<generators, cappedmessage, calcenddate, capped, calcend,
                   runs, outcome, producer, rpc>>
    /\ UNCHANGED notR

\* lines 192-194: the daily total, results["Total"]
RTotal ==
    /\ rpc = "gen"
    /\ rgi = Len(generators)
    /\ localresults' = localresults \cup {"Total"}
    /\ rpc' = "store"
    /\ UNCHANGED <<generators, results, cappedmessage, calcenddate, capped,
                   calcend, rgi, runs, outcome, producer>>
    /\ UNCHANGED notR

\* lines 196-197: st.session_state.results = results
RStore ==
    /\ rpc = "store"
    /\ results' = [run |-> runs, keys |-> localresults]
    /\ producer' = [capped |-> capped, calcend |-> calcend,
                    names |-> Range(generators)]
    /\ outcome' = "complete"
    /\ rpc' = "idle"
    /\ UNCHANGED <<generators, cappedmessage, calcenddate, capped, calcend,
                   localresults, rgi, runs>>
    /\ UNCHANGED notR

\* lines 198-200: the fetch, a conversion or the total raises; the error is
\* shown and the handler ends.
RExcept ==
    /\ rpc \in {"fetch", "gen"}
    /\ outcome' = "failed"
    /\ rpc' = "idle"
    /\ UNCHANGED <<generators, results, cappedmessage, calcenddate, capped,
                   calcend, localresults, rgi, runs, producer>>
    /\ UNCHANGED notR

RNext ==
    \/ RAddGenerator
    \/ RDeleteGenerator
    \/ RExecuteRejected
    \/ RExecute
    \/ RFetch
    \/ RConvert
    \/ RTotal
    \/ RStore
    \/ RExcept

\* ---- claims about the Execute handler ----

\* C11: a run is all-or-nothing.  The stored results are always those of a
\* run that completed (fetch, every generator, total): they hold every
\* generator of that run and the total, and a run that is under way, was
\* rejected or has failed has stored nothing.
C11_AllOrNothing ==
    /\ results # NoResults =>
          /\ results.run \in 1 .. runs
          /\ results.keys = producer.names \cup {"Total"}
    /\ outcome \in {"running", "failed", "rejected"} => results.run # runs
    /\ outcome = "complete" =>
          /\ results.run = runs
          /\ localresults = results.keys
          /\ rpc = "idle"

\* A second run failed after converting one of its two generators; the
\* results stored are still those of the first run.
C11_Witness ==
    /\ rpc = "idle"
    /\ runs = 2
    /\ outcome = "failed"
    /\ rgi = 1
    /\ localresults = {"Generator 1"}
    /\ Len(generators) = 2
    /\ results = [run |-> 1, keys |-> {"Generator 1", "Total"}]

\* C15: whenever stored results are displayed, capped_message and
\* calc_end_date are the ones computed by the run that stored them.
C15_CapMatchesResults ==
    (rpc = "idle" /\ results # NoResults) =>
        /\ cappedmessage = producer.capped
        /\ calcenddate = producer.calcend

(***************************************************************************)
(* Specifications: one per component; the other components stay idle.      *)
(***************************************************************************)

HIdle ==
    /\ hbase = << <<0, 0>> >>
    /\ genobstacles = << >>
    /\ baseelev = << >>
    /\ full = << >>
    /\ hk = 0
    /\ hpc = "done"

SIdle ==
    /\ hassnowfall = FALSE
    /\ st = 0
    /\ currentfactor = DOne
    /\ factort = DOne
    /\ prevfactor = DOne
    /\ lastsnow = [nan |-> TRUE, v |-> 0]
    /\ lastevent = 0
    /\ spc = "done"

WIdle ==
    /\ startdate = 0
    /\ enddate = 0
    /\ todaylocal = <<0, 0, 0>>
    /\ archivecall = << >>
    /\ forecastcall = << >>
    /\ hourlyparts = << >>
    /\ hourly = << >>
    /\ wpc = "done"

LIdle ==
    /\ losssettings = << >>
    /\ lossesparams = << >>
    /\ totallosspct = << >>
    /\ lossfactor = << >>
    /\ lpc = "idle"

AIdle ==
    /\ genhourly = << >>
    /\ totalhourly = << >>
    /\ gi = 0
    /\ apc = "idle"

EIdle ==
    /\ eindex = << >>
    /\ acwafterlosses = << >>
    /\ ackwh = << >>
    /\ epc = "idle"

IIdle ==
    /\ solarel = 0
    /\ horizonattime = 0
    /\ dni = NaN
    /\ ghi = NaN
    /\ dhi = NaN
    /\ dniadj = NaN
    /\ ghiadj = NaN
    /\ dhiadj = NaN
    /\ ipc = "idle"

TIdle ==
    /\ mounting = ""
    /\ facetype = ""
    /\ bifacialityfactorpct = Unparsable
    /\ bifaciality = 0
    /\ tset = ""
    /\ tpc = "idle"

RIdle ==
    /\ generators = << >>
    /\ results = NoResults
    /\ cappedmessage = FALSE
    /\ calcenddate = NoDate
    /\ capped = FALSE
    /\ calcend = NoDate
    /\ localresults = {}
    /\ rgi = 0
    /\ runs = 0
    /\ outcome = "none"
    /\ producer = NoProducer
    /\ rpc = "off"

HorizonInit == HInit /\ SIdle /\ WIdle /\ LIdle /\ AIdle /\ EIdle /\ IIdle /\ TIdle /\ RIdle
SpecHorizon == HorizonInit /\ [][HNext]_vars

SnowInit == SInit /\ HIdle /\ WIdle /\ LIdle /\ AIdle /\ EIdle /\ IIdle /\ TIdle /\ RIdle
SpecSnow == SnowInit /\ [][SNext]_vars

WeatherInit == WInit /\ HIdle /\ SIdle /\ LIdle /\ AIdle /\ EIdle /\ IIdle /\ TIdle /\ RIdle
SpecWeather == WeatherInit /\ [][WNext]_vars

LossInit == LInit /\ HIdle /\ SIdle /\ WIdle /\ AIdle /\ EIdle /\ IIdle /\ TIdle /\ RIdle
SpecLoss == LossInit /\ [][LNext]_vars

AggregationInit == AInit /\ HIdle /\ SIdle /\ WIdle /\ LIdle /\ EIdle /\ IIdle /\ TIdle /\ RIdle
SpecAggregation == AggregationInit /\ [][ANext]_vars

EnergyInit == EInit /\ HIdle /\ SIdle /\ WIdle /\ LIdle /\ AIdle /\ IIdle /\ TIdle /\ RIdle
SpecEnergy == EnergyInit /\ [][ENext]_vars

ExecuteInit == RInit /\ HIdle /\ SIdle /\ WIdle /\ LIdle /\ AIdle /\ EIdle /\ IIdle /\ TIdle
SpecExecute == ExecuteInit /\ [][RNext]_vars

IrradianceInit == IInit /\ HIdle /\ SIdle /\ WIdle /\ LIdle /\ AIdle /\ EIdle /\ TIdle /\ RIdle
SpecIrradiance == IrradianceInit /\ [][INext]_vars

ConfigInit == TInit /\ HIdle /\ SIdle /\ WIdle /\ LIdle /\ AIdle /\ EIdle /\ IIdle /\ RIdle
SpecConfig == ConfigInit /\ [][TNext]_vars

LossConfigInit == LConfigInit /\ HIdle /\ SIdle /\ WIdle /\ AIdle /\ EIdle /\ IIdle /\ TIdle /\ RIdle
SpecLossConfig == LossConfigInit /\ [][LConfigNext]_vars

====
